---- MODULE Spec2Model ----
(***************************************************************************)
(* State-machine model of the plugin toolchain's Dev Server                *)
(* (src/src/commands/serve.js, serveCommand).                              *)
(*                                                                         *)
(* Strings are sequences of one-character strings, so that startsWith,     *)
(* includes, path.join and parseInt are computed character by character,   *)
(* as the JavaScript runtime computes them.                                *)
(***************************************************************************)
EXTENDS Integers, Sequences, FiniteSets, TLC

\* ------------------------------------------------------------------------
\* Bounds of the model
\* ------------------------------------------------------------------------
MaxTime == 2        \* the clock Date.now() ranges over 0..MaxTime
MaxReq == 2         \* number of requests that can be in flight at once
MaxRuns == 2        \* number of build, bundle and package runs in a row
MaxTokens == 5      \* number of tokens a text given to a minifier is made of

\* ------------------------------------------------------------------------
\* String primitives (String.prototype.startsWith / includes / +)
\* ------------------------------------------------------------------------
StartsWith(s, p) ==
  /\ Len(p) <= Len(s)
  /\ SubSeq(s, 1, Len(p)) = p

Includes(s, p) ==
  \E i \in 1..(Len(s) - Len(p) + 1) : SubSeq(s, i, i + Len(p) - 1) = p

\* index of the first occurrence of character c in s, 0 when absent
IndexOf(s, c) ==
  IF \E i \in 1..Len(s) : s[i] = c
    THEN CHOOSE i \in 1..Len(s) : s[i] = c /\ \A j \in 1..(i - 1) : s[j] # c
    ELSE 0

\* s.split('/')
RECURSIVE Split(_)
Split(s) ==
  LET i == IndexOf(s, "/")
  IN IF i = 0 THEN <<s>>
     ELSE <<SubSeq(s, 1, i - 1)>> \o Split(SubSeq(s, i + 1, Len(s)))

\* ------------------------------------------------------------------------
\* path.join / path.normalize / path.extname (POSIX)
\* ------------------------------------------------------------------------
DOT == <<".">>
DOTDOT == <<".", ".">>

\* resolves "." and ".." and drops empty segments; ".." at the root stays
\* at the root (the joined path is always absolute here)
RECURSIVE NormalizeSegs(_, _)
NormalizeSegs(segs, acc) ==
  IF segs = <<>> THEN acc
  ELSE LET h == Head(segs)
           t == Tail(segs)
       IN IF h = <<>> \/ h = DOT THEN NormalizeSegs(t, acc)
          ELSE IF h = DOTDOT
            THEN NormalizeSegs(t, IF acc = <<>> THEN acc ELSE SubSeq(acc, 1, Len(acc) - 1))
            ELSE NormalizeSegs(t, Append(acc, h))

RECURSIVE JoinSegs(_)
JoinSegs(segs) ==
  IF segs = <<>> THEN <<>>
  ELSE <<"/">> \o Head(segs) \o JoinSegs(Tail(segs))

\* path.normalize of an absolute path: a trailing separator is preserved
Normalize(p) ==
  LET segs == NormalizeSegs(Split(p), <<>>)
      body == JoinSegs(segs)
  IN IF segs = <<>> THEN <<"/">>
     ELSE IF p[Len(p)] = "/" THEN body \o <<"/">> ELSE body

\* path.join(a, b) == normalize(a + '/' + b)
PathJoin(a, b) == Normalize(a \o <<"/">> \o b)

\* last path segment
Basename(p) ==
  LET segs == Split(p) IN segs[Len(segs)]

LastIndexOf(s, c) ==
  IF \E i \in 1..Len(s) : s[i] = c
    THEN CHOOSE i \in 1..Len(s) : s[i] = c /\ \A j \in (i + 1)..Len(s) : s[j] # c
    ELSE 0

\* path.extname: from the last "." of the basename, empty when the basename
\* has no "." or only a leading one
Extname(p) ==
  LET b == Basename(p)
      i == LastIndexOf(b, ".")
  IN IF i <= 1 THEN <<>> ELSE SubSeq(b, i, Len(b))

\* ------------------------------------------------------------------------
\* parseInt and number formatting
\* ------------------------------------------------------------------------
DigitChars == <<"0", "1", "2", "3", "4", "5", "6", "7", "8", "9">>
IsDigit(c) == \E d \in 1..10 : DigitChars[d] = c
DigitVal(c) == (CHOOSE d \in 1..10 : DigitChars[d] = c) - 1

\* String(n) for a natural number
RECURSIVE NumToStr(_)
NumToStr(n) ==
  IF n < 10 THEN <<DigitChars[n + 1]>>
  ELSE NumToStr(n \div 10) \o <<DigitChars[(n % 10) + 1]>>

\* value of the longest prefix of digits of s, starting from acc
RECURSIVE DigitsPrefix(_, _)
DigitsPrefix(s, acc) ==
  IF s = <<>> \/ ~IsDigit(Head(s)) THEN acc
  ELSE DigitsPrefix(Tail(s), acc * 10 + DigitVal(Head(s)))

NaN == [nan |-> TRUE, v |-> 0]
Num(n) == [nan |-> FALSE, v |-> n]

\* parseInt(s): optional sign, then the longest run of digits; NaN when
\* there is no digit
ParseInt(s) ==
  LET neg == s # <<>> /\ Head(s) = "-"
      rest == IF s # <<>> /\ Head(s) \in {"-", "+"} THEN Tail(s) ELSE s
  IN IF rest = <<>> \/ ~IsDigit(Head(rest)) THEN NaN
     ELSE Num(IF neg THEN 0 - DigitsPrefix(rest, 0) ELSE DigitsPrefix(rest, 0))

\* x || 0   (NaN and 0 are falsy)
OrZero(x) == IF x.nan THEN 0 ELSE x.v

\* String.prototype.toLowerCase
UpperChars == <<"A", "B", "C", "D", "E", "F", "G", "H", "I", "J", "K", "L", "M",
                "N", "O", "P", "Q", "R", "S", "T", "U", "V", "W", "X", "Y", "Z">>
LowerChars == <<"a", "b", "c", "d", "e", "f", "g", "h", "i", "j", "k", "l", "m",
                "n", "o", "p", "q", "r", "s", "t", "u", "v", "w", "x", "y", "z">>
ToLowerChar(c) ==
  IF \E k \in 1..26 : UpperChars[k] = c
    THEN LowerChars[CHOOSE k \in 1..26 : UpperChars[k] = c]
    ELSE c
ToLowerCase(s) == [k \in 1..Len(s) |-> ToLowerChar(s[k])]

\* ------------------------------------------------------------------------
\* String literals of serve.js
\* ------------------------------------------------------------------------
INDEX_HTML == <<"i", "n", "d", "e", "x", ".", "h", "t", "m", "l">>          \* 'index.html'
DOT_HTML == <<".", "h", "t", "m", "l">>                         \* '.html'
RELOAD_CHECK == <<"/", "_", "_", "r", "e", "l", "o", "a", "d", "_", "c", "h", "e", "c", "k">>   \* '/__reload_check'
DIST == <<"d", "i", "s", "t">>                                   \* 'dist'
NODE_MODULES == <<"n", "o", "d", "e", "_", "m", "o", "d", "u", "l", "e", "s">>   \* 'node_modules'
CLOSE_BODY == "</body>"
\* the injected fragment (the <script> ... </script> block), one token
liveReloadScript == "<script>live-reload</script>"

\* ------------------------------------------------------------------------
\* The environment: the project directory and the files around it
\* ------------------------------------------------------------------------
projectDir == <<"/", "r", "/", "p">>                       \* process.cwd() = /r/p

\* regular files: path and content; a content is a sequence of text chunks
FILES ==
  { [path |-> <<"/", "r", "/", "p", "/", "i", "n", "d", "e", "x", ".", "h", "t", "m", "l">>, content |-> <<"<p>", "</body>">>],
    [path |-> <<"/", "r", "/", "p", "/", "a", ".", "h", "t", "m", "l">>, content |-> <<"<p>">>],
    [path |-> <<"/", "r", "/", "p", "/", "c", ".", "c", "s", "s">>, content |-> <<"css">>],
    [path |-> <<"/", "r", "/", "p", "/", "s", "/", "i", "n", "d", "e", "x", ".", "h", "t", "m", "l">>, content |-> <<"<p>", "</BODY>">>],
    [path |-> <<"/", "r", "/", "p", "x", "/", "s", ".", "h", "t", "m", "l">>, content |-> <<"</body>", "<p>", "</body>">>],
    [path |-> <<"/", "r", "/", "x">>, content |-> <<"secret">>] }

DIRS == { <<"/", "r">>, <<"/", "r", "/", "p">>, <<"/", "r", "/", "p", "/", "s">>, <<"/", "r", "/", "p", "/", "d">>, <<"/", "r", "/", "p", "x">> }

\* fs.pathExists: true for a file or a directory, never throws
PathExists(p) == p \in DIRS \/ \E f \in FILES : f.path = p
\* stat.isDirectory()
IsDirectory(p) == p \in DIRS
\* fs.readFile of an existing regular file
FileContent(p) == (CHOOSE f \in FILES : f.path = p).content

\* ------------------------------------------------------------------------
\* Request URLs (req.url, as received, not normalised)
\* ------------------------------------------------------------------------
ROOT_URL == <<"/">>
QueryT(v) == RELOAD_CHECK \o <<"?", "t", "=">> \o v

FILE_URLS ==
  { ROOT_URL,
    <<"/", "n", "o">>,                         \* /no        no such file
    <<"/", "a">>,                               \* /a         served as a.html
    <<"/", "c", ".", "c", "s", "s">>,                \* /c.css
    <<"/", "s">>,                               \* /s         directory with index.html
    <<"/", "d">>,                               \* /d         directory without index.html
    <<"/", ".", ".", "/", "p", "x", "/", "s">>,      \* /../px/s   sibling of the project root
    <<"/", ".", ".", "/", "x">> }                \* /../x      outside the project root

RELOAD_URLS ==
  { RELOAD_CHECK,                               \* no t
    QueryT(<<"x">>),                            \* t=x
    QueryT(<<"1", "x">>),                       \* t=1x
    RELOAD_CHECK \o <<"/", ".", ".", "/", ".", ".", "/", "x">> } \* /__reload_check/../../x
  \cup { QueryT(NumToStr(n)) : n \in 0..MaxTime }

URLS == FILE_URLS \cup RELOAD_URLS

\* ------------------------------------------------------------------------
\* Pure steps of the request handlers
\* ------------------------------------------------------------------------
\* req.url === '/' ? 'index.html' : req.url, joined to the project directory
MapUrl(url) == PathJoin(projectDir, IF url = ROOT_URL THEN INDEX_HTML ELSE url)

\* the traversal check: filePath.startsWith(projectDir)
PassesRootCheck(filePath) == StartsWith(filePath, projectDir)

\* content.toString().replace('</body>', liveReloadScript + '</body>'):
\* a string pattern replaces the first occurrence only, case-sensitively
InjectLiveReload(content) ==
  IF \E k \in 1..Len(content) : content[k] = CLOSE_BODY
    THEN LET k == CHOOSE j \in 1..Len(content) :
                    content[j] = CLOSE_BODY /\ \A m \in 1..(j - 1) : content[m] # CLOSE_BODY
         IN SubSeq(content, 1, k - 1) \o <<liveReloadScript>> \o SubSeq(content, k, Len(content))
    ELSE content

\* url.searchParams.get('t') of new URL(req.url, base): null when absent
SearchParamT(url) ==
  LET q == IndexOf(url, "?")
      query == IF q = 0 THEN <<>> ELSE SubSeq(url, q + 1, Len(url))
  IN IF StartsWith(query, <<"t", "=">>)
       THEN LET v == SubSeq(query, 3, Len(query))
                a == IndexOf(v, "&")
            IN [present |-> TRUE, v |-> IF a = 0 THEN v ELSE SubSeq(v, 1, a - 1)]
       ELSE [present |-> FALSE, v |-> <<>>]

\* parseInt(url.searchParams.get('t')) || 0     (parseInt(null) is NaN)
ClientTime(url) ==
  LET t == SearchParamT(url)
  IN OrZero(IF t.present THEN ParseInt(t.v) ELSE NaN)

\* a reload decision that also fires when the two values are equal
ReloadAnswerAtLeast(lm, clientTime) == lm >= clientTime

\* the reload decision: lastModified > clientTime
ReloadAnswer(lm, clientTime) == lm > clientTime

\* the filter of the watch callback:
\* filename && !filename.startsWith('dist') && !filename.includes('node_modules')
WatchFilter(filename) ==
  /\ filename # <<>>
  /\ ~StartsWith(filename, DIST)
  /\ ~Includes(filename, NODE_MODULES)

\* ========================================================================
\* The asset pipeline: build, bundle and package commands
\* ========================================================================
\* ------------------------------------------------------------------------
\* Text primitives of the minifiers (regular expressions, computed on
\* characters)
\* ------------------------------------------------------------------------
IsSpace(c) == c \in {" ", "\n", "\t"}            \* \s

\* The replaces are computed match by match: the text before the leftmost
\* match, the replacement, then the same replace on the text after the match.

\* least element of a non-empty set of indices
First(S) == CHOOSE i \in S : \A j \in S : i <= j

\* index of the first occurrence of the string p in s, 0 when absent
FindSub(s, p) ==
  LET at == {i \in 1..(Len(s) - Len(p) + 1) : SubSeq(s, i, i + Len(p) - 1) = p}
  IN IF at = {} THEN 0 ELSE First(at)

Drop(s, n) == SubSeq(s, n + 1, Len(s))

\* s.replace(/open[\s\S]*?close/g, ''): each comment, up to its first closer
RECURSIVE RemoveBlocks(_, _, _)
RemoveBlocks(s, open, close) ==
  LET i == FindSub(s, open)
      after == Drop(s, i + Len(open) - 1)
      c == IF i = 0 THEN 0 ELSE FindSub(after, close)
  IN IF c = 0 THEN s
     ELSE SubSeq(s, 1, i - 1) \o RemoveBlocks(Drop(after, c + Len(close) - 1), open, close)

\* length of the run of white space at the head of s
SpaceRun(s) ==
  CHOOSE n \in 0..Len(s) : /\ \A i \in 1..n : IsSpace(s[i])
                           /\ (n = Len(s) \/ ~IsSpace(s[n + 1]))

\* length of the run of white space that starts at index i of s
SpaceRunAt(s, i) == SpaceRun(Drop(s, i - 1))

\* s.replace(/\s{min,}/g, ' ')
RECURSIVE CollapseSpace(_, _)
CollapseSpace(s, min) ==
  LET runs == {i \in 1..Len(s) : /\ IsSpace(s[i])
                                 /\ (i = 1 \/ ~IsSpace(s[i - 1]))
                                 /\ SpaceRunAt(s, i) >= min}
      i == First(runs)
  IN IF runs = {} THEN s
     ELSE SubSeq(s, 1, i - 1) \o <<" ">> \o CollapseSpace(Drop(s, i - 1 + SpaceRunAt(s, i)), min)

\* s.trim()
TrimEnd(s) ==
  SubSeq(s, 1, CHOOSE n \in 0..Len(s) : /\ \A i \in (n + 1)..Len(s) : IsSpace(s[i])
                                        /\ (n = 0 \/ ~IsSpace(s[n])))
Trim(s) == TrimEnd(Drop(s, SpaceRun(s)))

\* s.replace(/>\s+</g, '><')
RECURSIVE TightenTags(_)
TightenTags(s) ==
  LET gaps == {i \in 1..Len(s) : /\ s[i] = ">"
                                 /\ SpaceRunAt(s, i + 1) > 0
                                 /\ i + SpaceRunAt(s, i + 1) < Len(s)
                                 /\ s[i + SpaceRunAt(s, i + 1) + 1] = "<"}
      i == First(gaps)
  IN IF gaps = {} THEN s
     ELSE SubSeq(s, 1, i) \o TightenTags(Drop(s, i + SpaceRunAt(s, i + 1)))

CssSpecial(c) == c \in {"{", ":", ";", ",", "}"}     \* [{:;,}]

\* s.replace(/\s*([{:;,}])\s*/g, '$1')
RECURSIVE TightenCss(_)
TightenCss(s) ==
  LET starts == {i \in 1..Len(s) : /\ i + SpaceRunAt(s, i) <= Len(s)
                                   /\ CssSpecial(s[i + SpaceRunAt(s, i)])}
      i == First(starts)
      k == i + SpaceRunAt(s, i)
  IN IF starts = {} THEN s
     ELSE SubSeq(s, 1, i - 1) \o <<s[k]>> \o TightenCss(Drop(s, k + SpaceRunAt(s, k + 1)))

\* s.replace(/;}/g, '}')
RECURSIVE DropLastSemicolon(_)
DropLastSemicolon(s) ==
  LET i == FindSub(s, <<";", "}">>)
  IN IF i = 0 THEN s
     ELSE SubSeq(s, 1, i - 1) \o <<"}">> \o DropLastSemicolon(Drop(s, i + 1))

\* length of the rest of the line that starts at index i of s (. matches
\* all but \n)
LineRest(s, i) ==
  LET ends == {k \in i..Len(s) : s[k] = "\n"}
  IN IF ends = {} THEN Len(s) - i + 1 ELSE First(ends) - i

\* the back quote is written BACKQUOTE: the character itself cannot appear in
\* a module
BACKQUOTE == "bq"
IsQuote(c) == c \in {"'", "\"", BACKQUOTE}

\* the line-comment replace of minifyJs: a comment goes, up to the end of its
\* line, unless a quote character follows it on that line
RECURSIVE RemoveLineComments(_)
RemoveLineComments(s) ==
  LET comments == {i \in 1..(Len(s) - 1) :
                     /\ s[i] = "/" /\ s[i + 1] = "/"
                     /\ \A k \in (i + 2)..(i + LineRest(s, i) - 1) : ~IsQuote(s[k])}
      i == First(comments)
  IN IF comments = {} THEN s
     ELSE SubSeq(s, 1, i - 1) \o RemoveLineComments(Drop(s, i - 1 + LineRest(s, i)))

\* length of the run of newlines that starts at index i of s
NewlineRun(s, i) ==
  CHOOSE n \in 0..(Len(s) - i + 1) : /\ \A k \in i..(i + n - 1) : s[k] = "\n"
                                     /\ (i + n > Len(s) \/ s[i + n] # "\n")

\* s.replace(/\n{2,}/g, '\n')
RECURSIVE CollapseNewlines(_)
CollapseNewlines(s) ==
  LET runs == {i \in 1..Len(s) : (i = 1 \/ s[i - 1] # "\n") /\ NewlineRun(s, i) >= 2}
      i == First(runs)
  IN IF runs = {} THEN s
     ELSE SubSeq(s, 1, i) \o CollapseNewlines(Drop(s, i - 1 + NewlineRun(s, i)))

\* s.replace(/^\s+/gm, ''): white space at the start of a line
\* (the text after a match begins with a character that is not white space,
\* so the replace on it finds the same matches as in the whole text)
RECURSIVE StripLineStarts(_)
StripLineStarts(s) ==
  LET starts == {i \in 1..Len(s) : IsSpace(s[i]) /\ (i = 1 \/ s[i - 1] = "\n")}
      i == First(starts)
  IN IF starts = {} THEN s
     ELSE SubSeq(s, 1, i - 1) \o StripLineStarts(Drop(s, i - 1 + SpaceRunAt(s, i)))

OPEN_HTML_COMMENT == <<"<", "!", "-", "-">>
CLOSE_HTML_COMMENT == <<"-", "-", ">">>
OPEN_COMMENT == <<"/", "*">>
CLOSE_COMMENT == <<"*", "/">>

minifyHtml(content) ==
  Trim(CollapseSpace(TightenTags(RemoveBlocks(content, OPEN_HTML_COMMENT, CLOSE_HTML_COMMENT)), 2))

minifyCss(content) ==
  Trim(DropLastSemicolon(TightenCss(CollapseSpace(
         RemoveBlocks(content, OPEN_COMMENT, CLOSE_COMMENT), 1))))

minifyJs(content) ==
  Trim(StripLineStarts(CollapseNewlines(
         RemoveBlocks(RemoveLineComments(content), OPEN_COMMENT, CLOSE_COMMENT))))

\* ------------------------------------------------------------------------
\* The file system seen by the commands: a function from absolute paths to
\* entries.  An entry is a directory or a file; a file holds text (its
\* characters), or a JSON object (json), or the members of an archive (arc).
\* The field by records the run that wrote the entry (0: before any run).
\* ------------------------------------------------------------------------
Range(seq) == {seq[k] : k \in 1..Len(seq)}

\* the characters of a string literal
Chars(str) == [i \in 1..Len(str) |-> SubSeq(str, i, i)]

EndsWith(s, p) ==
  /\ Len(p) <= Len(s)
  /\ SubSeq(s, Len(s) - Len(p) + 1, Len(s)) = p

\* path.dirname of a normalized absolute path
Dirname(p) ==
  LET i == LastIndexOf(p, "/") IN IF i <= 1 THEN <<"/">> ELSE SubSeq(p, 1, i - 1)

\* path.resolve(base, name) for an absolute base
PathResolve(base, name) ==
  LET q == IF name # <<>> /\ Head(name) = "/" THEN Normalize(name) ELSE PathJoin(base, name)
  IN IF Len(q) > 1 /\ q[Len(q)] = "/" THEN SubSeq(q, 1, Len(q) - 1) ELSE q

\* path.relative(dir, p) for a path p below dir
PathRelative(dir, p) == Drop(p, Len(dir) + 1)

\* p is dir or lies below it
Under(p, dir) == p = dir \/ StartsWith(p, dir \o <<"/">>)

DirEntry(n) == [kind |-> "dir", text |-> <<>>, json |-> <<>>, arc |-> <<>>, by |-> n]
TextFile(t, n) == [kind |-> "file", text |-> t, json |-> <<>>, arc |-> <<>>, by |-> n]
JsonFile(j, n) == [kind |-> "file", text |-> <<>>, json |-> j, arc |-> <<>>, by |-> n]
ArchiveFile(a, n) == [kind |-> "file", text |-> <<>>, json |-> <<>>, arc |-> a, by |-> n]

\* what a file holds, whoever wrote it
Content(e) == [kind |-> e.kind, text |-> e.text, json |-> e.json, arc |-> e.arc]

Exists(d, p) == p \in DOMAIN d                          \* fs.pathExists
IsDir(d, p) == p \in DOMAIN d /\ d[p].kind = "dir"
IsFile(d, p) == p \in DOMAIN d /\ d[p].kind = "file"

\* fs.remove: the entry and everything below it; no error when absent
Remove(d, p) == [q \in {q \in DOMAIN d : ~Under(q, p)} |-> d[q]]

Ancestors(p) == {SubSeq(p, 1, i - 1) : i \in {i \in 2..Len(p) : p[i] = "/"}}

\* fs.ensureDir (mkdir -p): fails when a file is in the way
CanEnsureDir(d, p) == \A q \in Ancestors(p) \cup {p} : Exists(d, q) => IsDir(d, q)
EnsureDir(d, p, n) ==
  [q \in DOMAIN d \cup Ancestors(p) \cup {p} |-> IF q \in DOMAIN d THEN d[q] ELSE DirEntry(n)]

\* fs.writeFile: the directory must exist and the target not be a directory
CanWrite(d, p) == IsDir(d, Dirname(p)) /\ ~IsDir(d, p)
WriteFile(d, p, e) == [q \in DOMAIN d \cup {p} |-> IF q = p THEN e ELSE d[q]]

\* fs.copy(src, dst): the whole tree below src, overwriting
CanCopy(d, src, dst) == ~Under(dst, src) /\ CanEnsureDir(d, Dirname(dst))
Copy(d, src, dst, n) ==
  LET from == {q \in DOMAIN d : Under(q, src)}
      to(q) == dst \o Drop(q, Len(src))
      base == EnsureDir(d, Dirname(dst), n)
  IN [r \in DOMAIN base \cup {to(q) : q \in from} |->
        IF \E q \in from : to(q) = r
          THEN [d[CHOOSE q \in from : to(q) = r] EXCEPT !.by = n]
          ELSE base[r]]

\* names in code-unit order, the order in which readdir lists them here
CharOrder == Chars("-.0123456789ABCDEFGHIJKLMNOPQRSTUVWXYZ_abcdefghijklmnopqrstuvwxyz")
CharRanks == [c \in {CharOrder[k] : k \in 1..Len(CharOrder)} |-> IndexOf(CharOrder, c)]
CharRank(c) == CharRanks[c]

RECURSIVE NameLess(_, _)
NameLess(a, b) ==
  IF a = <<>> THEN b # <<>>
  ELSE IF b = <<>> THEN FALSE
  ELSE IF Head(a) = Head(b) THEN NameLess(Tail(a), Tail(b))
  ELSE CharRank(Head(a)) < CharRank(Head(b))

RECURSIVE SortNames(_)
SortNames(S) ==
  IF S = {} THEN <<>>
  ELSE LET m == CHOOSE x \in S : \A y \in S \ {x} : NameLess(x, y)
       IN <<m>> \o SortNames(S \ {m})

\* the entries directly below dir
Children(d, dir) ==
  {q \in DOMAIN d : /\ Len(q) > Len(dir) + 1
                    /\ StartsWith(q, dir \o <<"/">>)
                    /\ \A k \in (Len(dir) + 2)..Len(q) : q[k] # "/"}

\* fs.readdir(dir)
Readdir(d, dir) == SortNames({Drop(q, Len(dir) + 1) : q \in Children(d, dir)})

\* fs.readFile(p, 'utf8') followed by a write: a byte that is not UTF-8 comes
\* back as the replacement character
INVALID_BYTE == "xFF"
REPLACEMENT == "uFFFD"
Utf8(t) == [i \in 1..Len(t) |-> IF t[i] = INVALID_BYTE THEN REPLACEMENT ELSE t[i]]

\* ------------------------------------------------------------------------
\* findFiles(dir, ext)
\* ------------------------------------------------------------------------
DOT_CSS == Chars(".css")
DOT_JS == Chars(".js")
LIB == Chars("lib")
ASSETS == Chars("assets")
MANIFEST_JSON == Chars("manifest.json")
SKIPPED_DIRS == {NODE_MODULES, DIST, Chars(".git")}

RECURSIVE findFiles(_, _, _), FindIn(_, _, _, _)
FindIn(d, dir, items, ext) ==
  IF items = <<>> THEN <<>>
  ELSE LET item == Head(items)
           fullPath == PathJoin(dir, item)
           found == IF IsDir(d, fullPath)
                      THEN IF item \notin SKIPPED_DIRS THEN findFiles(d, fullPath, ext) ELSE <<>>
                      ELSE IF EndsWith(item, ext) THEN <<fullPath>> ELSE <<>>
       IN found \o FindIn(d, dir, Tail(items), ext)
findFiles(d, dir, ext) == FindIn(d, dir, Readdir(d, dir), ext)

\* the directories findFiles lists: dir and the directories below it that are
\* reached without entering a skipped one
Traversed(d, dir) ==
  {q \in DOMAIN d : /\ IsDir(d, q)
                    /\ Under(q, dir)
                    /\ \A seg \in Range(Split(Drop(q, Len(dir)))) : seg \notin SKIPPED_DIRS}

\* ------------------------------------------------------------------------
\* buildCommand.  A run is carried through its steps as a record: the disk,
\* the files read so far, the directories listed so far, and whether an
\* error was thrown (the steps after a throw are skipped; what was written
\* before it stays on the disk).
\* ------------------------------------------------------------------------
Begin(d) == [disk |-> d, failed |-> FALSE, reads |-> {}, listed |-> {}]
Throw(b) == [b EXCEPT !.failed = TRUE]

PRODUCTION == Chars("production")

\* new Date().toISOString() at clock value t
IsoString(t) == <<"T">> \o NumToStr(t)

\* manifest.entryPoint || 'index.html'
EntryPoint(manifest) ==
  IF "entryPoint" \in DOMAIN manifest /\ manifest["entryPoint"] # <<>>
    THEN manifest["entryPoint"] ELSE INDEX_HTML

\* fs.remove(outputDir); fs.ensureDir(outputDir), without the remove
CleanKeeping(d, outputDir, n) == EnsureDir(d, outputDir, n)
\* fs.remove(outputDir); fs.ensureDir(outputDir)
Clean(d, outputDir, n) == EnsureDir(Remove(d, outputDir), outputDir, n)

CleanStep(b, outputDir, n) ==
  IF b.failed THEN b
  ELSE IF ~CanEnsureDir(Remove(b.disk, outputDir), outputDir) THEN Throw(b)
  ELSE [b EXCEPT !.disk = Clean(b.disk, outputDir, n)]

\* the entry HTML is written to outputDir/index.html
HtmlStep(b, outputDir, manifest, minify, n) ==
  LET htmlPath == PathJoin(projectDir, EntryPoint(manifest))
      dest == PathJoin(outputDir, INDEX_HTML)
  IN IF b.failed \/ ~Exists(b.disk, htmlPath) THEN b
     ELSE IF IsDir(b.disk, htmlPath) \/ ~CanWrite(b.disk, dest) THEN Throw(b)
     ELSE LET htmlContent == Utf8(b.disk[htmlPath].text)
          IN [b EXCEPT !.reads = b.reads \cup {htmlPath},
                       !.disk = WriteFile(b.disk, dest,
                                  TextFile(IF minify THEN minifyHtml(htmlContent) ELSE htmlContent, n))]

\* the minifier chosen by a file's extension
MinifyAs(ext, text) ==
  IF ext = DOT_JS THEN minifyJs(text) ELSE IF ext = DOT_CSS THEN minifyCss(text) ELSE text

\* the body of the CSS and JS loops
RECURSIVE ProcessFiles(_, _, _, _, _, _)
ProcessFiles(b, files, outputDir, ext, minify, n) ==
  IF files = <<>> \/ b.failed THEN b
  ELSE LET file == Head(files)
           relativePath == PathRelative(projectDir, file)
           destPath == PathJoin(outputDir, relativePath)
           content == Utf8(b.disk[file].text)
           made == EnsureDir(b.disk, Dirname(destPath), n)
           next ==
             IF StartsWith(relativePath, DIST) \/ StartsWith(relativePath, NODE_MODULES) THEN b
             ELSE IF ~CanEnsureDir(b.disk, Dirname(destPath)) \/ ~CanWrite(made, destPath)
               THEN Throw([b EXCEPT !.reads = b.reads \cup {file}])
             ELSE [b EXCEPT !.reads = b.reads \cup {file},
                            !.disk = WriteFile(made, destPath,
                                       TextFile(IF minify THEN MinifyAs(ext, content) ELSE content, n))]
       IN ProcessFiles(next, Tail(files), outputDir, ext, minify, n)

FilesStep(b, outputDir, ext, minify, n) ==
  IF b.failed THEN b
  ELSE ProcessFiles([b EXCEPT !.listed = b.listed \cup Traversed(b.disk, projectDir)],
                    findFiles(b.disk, projectDir, ext), outputDir, ext, minify, n)

AssetsStep(b, outputDir, n) ==
  LET assetsDir == PathJoin(projectDir, ASSETS)
      dest == PathJoin(outputDir, ASSETS)
  IN IF b.failed \/ ~Exists(b.disk, assetsDir) THEN b
     ELSE IF ~CanCopy(b.disk, assetsDir, dest) THEN Throw(b)
     ELSE [b EXCEPT !.reads = b.reads \cup {q \in DOMAIN b.disk : Under(q, assetsDir) /\ IsFile(b.disk, q)},
                    !.listed = b.listed \cup {q \in DOMAIN b.disk : Under(q, assetsDir) /\ IsDir(b.disk, q)},
                    !.disk = Copy(b.disk, assetsDir, dest, n)]

\* the body of the lib loop: every member is read as text
RECURSIVE CopyLib(_, _, _, _, _)
CopyLib(b, libFiles, outputDir, minify, n) ==
  IF libFiles = <<>> \/ b.failed THEN b
  ELSE LET file == Head(libFiles)
           src == PathJoin(PathJoin(projectDir, LIB), file)
           dest == PathJoin(PathJoin(outputDir, LIB), file)
           content == Utf8(b.disk[src].text)
           out == IF minify /\ EndsWith(file, DOT_JS) THEN minifyJs(content)
                  ELSE IF minify /\ EndsWith(file, DOT_CSS) THEN minifyCss(content)
                  ELSE content
           next ==
             IF IsDir(b.disk, src) \/ ~CanWrite(b.disk, dest) THEN Throw(b)
             ELSE [b EXCEPT !.reads = b.reads \cup {src},
                            !.disk = WriteFile(b.disk, dest, [b.disk[src] EXCEPT !.text = out, !.by = n])]
       IN CopyLib(next, Tail(libFiles), outputDir, minify, n)

LibStep(b, outputDir, minify, n) ==
  LET libDir == PathJoin(projectDir, LIB)
      dest == PathJoin(outputDir, LIB)
  IN IF b.failed \/ ~Exists(b.disk, libDir) THEN b
     ELSE IF ~IsDir(b.disk, libDir) \/ ~CanEnsureDir(b.disk, dest) THEN Throw(b)
     ELSE CopyLib([b EXCEPT !.listed = b.listed \cup {libDir}, !.disk = EnsureDir(b.disk, dest, n)],
                  Readdir(b.disk, libDir), outputDir, minify, n)

\* the production manifest with one more field taken from the clock
ProdManifestStamped(manifest, t) ==
  [k \in DOMAIN manifest \cup {"buildDate", "buildMode", "buildId"} |->
     IF k \in {"buildDate", "buildId"} THEN IsoString(t)
     ELSE IF k = "buildMode" THEN PRODUCTION
     ELSE manifest[k]]
\* {buildDate, buildMode, ...manifest}: the fields of the source win
ProdManifestUnder(manifest, t) ==
  [k \in DOMAIN manifest \cup {"buildDate", "buildMode"} |->
     IF k \in DOMAIN manifest THEN manifest[k]
     ELSE IF k = "buildDate" THEN IsoString(t)
     ELSE PRODUCTION]
\* {...manifest, buildDate: new Date().toISOString(), buildMode: 'production'}
ProdManifest(manifest, t) ==
  [k \in DOMAIN manifest \cup {"buildDate", "buildMode"} |->
     IF k = "buildDate" THEN IsoString(t)
     ELSE IF k = "buildMode" THEN PRODUCTION
     ELSE manifest[k]]

ManifestStep(b, outputDir, manifest, t, n) ==
  LET dest == PathJoin(outputDir, MANIFEST_JSON)
  IN IF b.failed THEN b
     ELSE IF ~CanWrite(b.disk, dest) THEN Throw(b)
     ELSE [b EXCEPT !.disk = WriteFile(b.disk, dest, JsonFile(ProdManifest(manifest, t), n))]

\* options.output || 'dist', resolved against the project directory
OutputDir(options) ==
  PathResolve(projectDir, IF options.output = <<>> THEN DIST ELSE options.output)

\* fs.readJson succeeds on a file that holds a JSON object
IsJson(d, p) == IsFile(d, p) /\ d[p].json # <<>>

ManifestPath == PathJoin(projectDir, MANIFEST_JSON)

\* fs.readJson(manifestPath)
Manifest(d) == d[ManifestPath].json

\* a run that has read the manifest
Started(d) == [Begin(d) EXCEPT !.reads = {ManifestPath}]

\* the run record with the outcome in status
Outcome(b, status) == b @@ [status |-> IF b.failed THEN "failed" ELSE status]

\* buildCommand without --bundle, run number n at clock value t: the steps
\* in the order of the code
buildCommand(d, options, t, n) ==
  IF ~Exists(d, ManifestPath) THEN Outcome(Begin(d), "noManifest")
  ELSE IF ~IsJson(d, ManifestPath) THEN Outcome(Throw(Started(d)), "failed")
  ELSE Outcome(
         ManifestStep(
           LibStep(
             AssetsStep(
               FilesStep(
                 FilesStep(
                   HtmlStep(
                     CleanStep(Started(d), OutputDir(options), n),
                     OutputDir(options), Manifest(d), options.minify, n),
                   OutputDir(options), DOT_CSS, options.minify, n),
                 OutputDir(options), DOT_JS, options.minify, n),
               OutputDir(options), n),
             OutputDir(options), options.minify, n),
           OutputDir(options), Manifest(d), t, n),
         "done")

\* ------------------------------------------------------------------------
\* buildBundled
\* ------------------------------------------------------------------------
\* s.replace(pattern, replacement) for a string pattern: the first
\* occurrence only, compared case-sensitively
ReplaceFirst(s, pattern, replacement) ==
  LET i == FindSub(s, pattern)
  IN IF i = 0 THEN s
     ELSE SubSeq(s, 1, i - 1) \o replacement \o Drop(s, i + Len(pattern) - 1)

\* index of the first c at or after index from, 0 when there is none
FirstAt(s, c, from) ==
  LET at == {k \in from..Len(s) : s[k] = c}
  IN IF at = {} THEN 0 ELSE First(at)

StartsWithAt(s, i, p) ==
  i >= 1 /\ i + Len(p) - 1 <= Len(s) /\ SubSeq(s, i, i + Len(p) - 1) = p

OPEN_LINK == Chars("<link")
REL_STYLESHEET == Chars("rel=\"stylesheet\"")

\* index of the ">" that ends a stylesheet link tag starting at index i of the
\* lower-cased text ls, 0 when no such tag starts there
LinkEnd(ls, i) ==
  LET g == FirstAt(ls, ">", i + Len(OPEN_LINK))
  IN IF StartsWithAt(ls, i, OPEN_LINK) /\ g > 0
        /\ Includes(SubSeq(ls, i + Len(OPEN_LINK), g - 1), REL_STYLESHEET)
       THEN g ELSE 0

\* s.replace(/<link[^>]*rel="stylesheet"[^>]*>/gi, '')
RECURSIVE RemoveLinks(_)
RemoveLinks(s) ==
  LET ls == ToLowerCase(s)
      tags == {i \in 1..Len(s) : LinkEnd(ls, i) > 0}
      i == First(tags)
  IN IF tags = {} THEN s
     ELSE SubSeq(s, 1, i - 1) \o RemoveLinks(Drop(s, LinkEnd(ls, i)))

OPEN_SCRIPT == Chars("<script")
SRC_QUOTE == Chars("src=\"")
END_SCRIPT == Chars("></script>")

\* index of the last character of a script tag with a src attribute whose
\* src=" is at index k of ls, 0 when the tag does not close as the pattern
\* demands
ScriptEndFrom(ls, k) ==
  LET q == FirstAt(ls, "\"", k + Len(SRC_QUOTE))
      g == IF q = 0 THEN 0 ELSE FirstAt(ls, ">", q + 1)
  IN IF g > 0 /\ StartsWithAt(ls, g, END_SCRIPT) THEN g + Len(END_SCRIPT) - 1 ELSE 0

\* the places where src=" may be matched for a script tag starting at i: no
\* ">" between the tag name and the attribute
SrcPlaces(ls, i) ==
  {k \in (i + Len(OPEN_SCRIPT))..Len(ls) :
     /\ StartsWithAt(ls, k, SRC_QUOTE)
     /\ \A j \in (i + Len(OPEN_SCRIPT))..(k - 1) : ls[j] # ">"
     /\ ScriptEndFrom(ls, k) > 0}

\* end of the match at i (the greedy [^>]* takes the last place), 0 when none
ScriptEnd(ls, i) ==
  LET places == SrcPlaces(ls, i)
  IN IF ~StartsWithAt(ls, i, OPEN_SCRIPT) \/ places = {} THEN 0
     ELSE ScriptEndFrom(ls, CHOOSE k \in places : \A j \in places : j <= k)

\* s.replace(/<script[^>]*src="[^"]*"[^>]*><\/script>/gi, '')
RECURSIVE RemoveScripts(_)
RemoveScripts(s) ==
  LET ls == ToLowerCase(s)
      tags == {i \in 1..Len(s) : ScriptEnd(ls, i) > 0}
      i == First(tags)
  IN IF tags = {} THEN s
     ELSE SubSeq(s, 1, i - 1) \o RemoveScripts(Drop(s, ScriptEnd(ls, i)))

CLOSE_HEAD == Chars("</head>")
CLOSE_BODY_TAG == Chars("</body>")
NL == <<"\n">>

\* `<style>\n${allCss}\n</style>\n</head>`
StyleBlock(allCss) == Chars("<style>") \o NL \o allCss \o NL \o Chars("</style>") \o NL \o CLOSE_HEAD
\* `<script>\n${allJs}\n</script>\n</body>`
ScriptBlock(allJs) == Chars("<script>") \o NL \o allJs \o NL \o Chars("</script>") \o NL \o CLOSE_BODY_TAG

\* the bundled HTML: tags removed, then the two blocks inserted
BundleHtml(htmlContent, allCss, allJs) ==
  ReplaceFirst(ReplaceFirst(RemoveScripts(RemoveLinks(htmlContent)),
                            CLOSE_HEAD, StyleBlock(allCss)),
               CLOSE_BODY_TAG, ScriptBlock(allJs))

\* `/* ${name} */\n${content}\n\n`, for each file in order
RECURSIVE Concatenate(_, _, _)
Concatenate(d, dir, files) ==
  IF files = <<>> THEN <<>>
  ELSE Chars("/* ") \o PathRelative(dir, Head(files)) \o Chars(" */") \o NL
       \o Utf8(d[Head(files)].text) \o NL \o NL
       \o Concatenate(d, dir, Tail(files))

\* the files of a findFiles result that the bundle loops do not skip
Kept(files, skipLib) ==
  LET Keep(file) ==
        LET relativePath == PathRelative(projectDir, file)
        IN ~(\/ StartsWith(relativePath, DIST)
             \/ StartsWith(relativePath, NODE_MODULES)
             \/ (skipLib /\ StartsWith(relativePath, LIB)))
  IN SelectSeq(files, Keep)

\* the .js members of the lib directory, as full paths
LibScripts(d) ==
  LET libDir == PathJoin(projectDir, LIB)
      IsScript(file) == EndsWith(file, DOT_JS)
      names == IF Exists(d, libDir) /\ IsDir(d, libDir)
                 THEN SelectSeq(Readdir(d, libDir), IsScript) ELSE <<>>
  IN [k \in 1..Len(names) |-> PathJoin(libDir, names[k])]

LibDir == PathJoin(projectDir, LIB)
HtmlPath(manifest) == PathJoin(projectDir, EntryPoint(manifest))
CssFiles(d) == Kept(findFiles(d, projectDir, DOT_CSS), FALSE)
JsFiles(d) == Kept(findFiles(d, projectDir, DOT_JS), TRUE)

\* allCss and allJs after the collection loops: lib scripts first
AllCss(d) == Concatenate(d, projectDir, CssFiles(d))
AllJs(d) == Concatenate(d, projectDir, LibScripts(d)) \o Concatenate(d, projectDir, JsFiles(d))

FinalHtml(d, manifest, minify) ==
  IF minify
    THEN minifyHtml(BundleHtml(Utf8(d[HtmlPath(manifest)].text), minifyCss(AllCss(d)), minifyJs(AllJs(d))))
    ELSE BundleHtml(Utf8(d[HtmlPath(manifest)].text), AllCss(d), AllJs(d))

\* path.join(outputDir, `${manifest.id}.html`)
BundlePath(manifest, options) == PathJoin(OutputDir(options), manifest["id"] \o Chars(".html"))

BundleReads(d, manifest) ==
  {ManifestPath, HtmlPath(manifest)} \cup Range(CssFiles(d)) \cup Range(LibScripts(d)) \cup Range(JsFiles(d))

\* buildBundled without the check of the entry file: a missing entry is
\* bundled as an empty page
BundleIntoUnchecked(d, manifest, options, n) ==
  IF ~CanWrite(d, BundlePath(manifest, options)) THEN Outcome(Throw(Started(d)), "failed")
  ELSE Outcome([disk |-> WriteFile(d, BundlePath(manifest, options),
                                   TextFile(IF IsFile(d, HtmlPath(manifest))
                                              THEN FinalHtml(d, manifest, options.minify)
                                              ELSE <<>>, n)),
                failed |-> FALSE,
                reads |-> BundleReads(d, manifest),
                listed |-> Traversed(d, projectDir)],
               "done")
\* buildBundled after fs.ensureDir(outputDir), on the disk d it left
BundleInto(d, manifest, options, n) ==
  IF ~Exists(d, HtmlPath(manifest)) THEN Outcome(Started(d), "noEntry")
  ELSE IF \/ IsDir(d, HtmlPath(manifest))
          \/ (Exists(d, LibDir) /\ ~IsDir(d, LibDir))
          \/ \E f \in Range(LibScripts(d)) : IsDir(d, f)
          \/ ~CanWrite(d, BundlePath(manifest, options))
    THEN Outcome(Throw(Started(d)), "failed")
  ELSE Outcome([disk |-> WriteFile(d, BundlePath(manifest, options),
                                   TextFile(FinalHtml(d, manifest, options.minify), n)),
                failed |-> FALSE,
                reads |-> BundleReads(d, manifest),
                listed |-> Traversed(d, projectDir)],
               "done")

\* buildBundled, run number n: the run record with the outcome in status
buildBundled(d, options, n) ==
  IF ~Exists(d, ManifestPath) THEN Outcome(Begin(d), "noManifest")
  ELSE IF ~IsJson(d, ManifestPath) \/ ~CanEnsureDir(d, OutputDir(options))
    THEN Outcome(Throw(Started(d)), "failed")
  ELSE BundleInto(EnsureDir(d, OutputDir(options), n), Manifest(d), options, n)

\* ------------------------------------------------------------------------
\* packageCommand
\* ------------------------------------------------------------------------
DOT_CPOSPLUGIN == Chars(".cposplugin")
DOT_JSON == Chars(".json")
REQUIRED_FILES == {INDEX_HTML, MANIFEST_JSON}
FILES_TO_INCLUDE == {INDEX_HTML, Chars("styles.css"), Chars("main.js"), MANIFEST_JSON}
OPTIONAL_FILES == {Chars("payment-handler.js"), Chars("report-generator.js")}
DEFAULT_VERSION == Chars("1.0.0")

\* name.toLowerCase().replace(/[^a-z0-9-_]/g, '-')
SafeChars == Chars("abcdefghijklmnopqrstuvwxyz0123456789-_")
Sanitize(name) ==
  [k \in 1..Len(name) |->
     IF IndexOf(SafeChars, ToLowerChar(name[k])) > 0 THEN ToLowerChar(name[k]) ELSE "-"]

\* m[k] || fallback
FieldOr(m, k, fallback) == IF k \in DOMAIN m /\ m[k] # <<>> THEN m[k] ELSE fallback

\* the required files found neither in sourceDir nor, when packaging from
\* dist, at the project root
MissingFiles(d, sourceDir) ==
  {file \in REQUIRED_FILES :
     /\ ~Exists(d, PathJoin(sourceDir, file))
     /\ ~(sourceDir # projectDir /\ Exists(d, PathJoin(projectDir, file)))}

\* the files that go into the archive
Members(d, sourceDir) ==
  IF sourceDir # projectDir
    THEN {q \in DOMAIN d : Under(q, sourceDir) /\ IsFile(d, q)}
    ELSE {q \in DOMAIN d :
            /\ IsFile(d, q)
            /\ \/ \E file \in FILES_TO_INCLUDE \cup OPTIONAL_FILES : q = PathJoin(sourceDir, file)
               \/ Under(q, PathJoin(sourceDir, ASSETS))
               \/ Under(q, PathJoin(sourceDir, LIB))}

\* the archive: member name -> content
Archive(d, sourceDir) ==
  LET from == Members(d, sourceDir)
      names == {PathRelative(sourceDir, q) : q \in from}
  IN [name \in names |-> Content(d[PathJoin(sourceDir, name)])]

\* stats.size of the archive: the end record and the two headers of each
\* member, a lower bound of the bytes written
ZipSize(arc) == 22 + 76 * Cardinality(DOMAIN arc)

PackageInfo(manifest, outputFileName, size, t) ==
  (IF "version" \in DOMAIN manifest THEN [version |-> manifest["version"]] ELSE << >>) @@
  (IF "name" \in DOMAIN manifest THEN [name |-> manifest["name"]] ELSE << >>) @@
  [ id |-> FieldOr(manifest, "id", Sanitize(FieldOr(manifest, "name", <<>>))),
    packageFile |-> outputFileName,
    packageSize |-> NumToStr(size),
    createdAt |-> IsoString(t),
    minPosVersion |-> FieldOr(manifest, "minPosVersion", DEFAULT_VERSION) ]

DistDir == PathJoin(projectDir, DIST)

\* dist when it exists, the project root otherwise
SourceDir(d) == IF Exists(d, DistDir) THEN DistDir ELSE projectDir

\* the default name without the version
OutputFileNameUnversioned(manifest, options) ==
  IF options.output # <<>> THEN options.output
  ELSE FieldOr(manifest, "id", Sanitize(FieldOr(manifest, "name", <<>>))) \o DOT_CPOSPLUGIN
\* options.output || `${sanitizedName}-${version}.cposplugin`
OutputFileName(manifest, options) ==
  IF options.output # <<>> THEN options.output
  ELSE FieldOr(manifest, "id", Sanitize(FieldOr(manifest, "name", <<>>)))
       \o <<"-">> \o FieldOr(manifest, "version", DEFAULT_VERSION) \o DOT_CPOSPLUGIN

OutputPath(manifest, options) == PathResolve(projectDir, OutputFileName(manifest, options))

\* outputPath.replace('.cposplugin', '.json')
InfoPath(manifest, options) == ReplaceFirst(OutputPath(manifest, options), DOT_CPOSPLUGIN, DOT_JSON)

\* the package info file is written next to the archive, on the disk d that
\* holds the archive; size is stats.size of the archive
WriteInfo(d, members, size, manifest, options, t, n) ==
  IF ~CanWrite(d, InfoPath(manifest, options))
    THEN Outcome(Throw([Started(d) EXCEPT !.reads = {ManifestPath} \cup members]), "failed")
  ELSE Outcome([disk |-> WriteFile(d, InfoPath(manifest, options),
                           JsonFile(PackageInfo(manifest, OutputFileName(manifest, options),
                                                size, t), n)),
                failed |-> FALSE,
                reads |-> {ManifestPath} \cup members,
                listed |-> {}],
               "done")

\* the file found at outputPath when the output stream has closed: the
\* archive, or an empty file when the bytes did not reach the disk (empty)
Written(arc, empty, n) == IF empty THEN TextFile(<<>>, n) ELSE ArchiveFile(arc, n)

\* fs.stat(outputPath).size
StatSize(arc, empty) == IF empty THEN 0 ELSE ZipSize(arc)

\* the archive is written, on the disk d left by the removal of a previous
\* package; the success message follows the package info file, and
\* verifyPackage, which only prints what it finds, follows both
Pack(d, sourceDir, manifest, options, empty, t, n) ==
  IF ~CanWrite(d, OutputPath(manifest, options)) THEN Outcome(Throw(Started(d)), "failed")
  ELSE WriteInfo(WriteFile(d, OutputPath(manifest, options), Written(Archive(d, sourceDir), empty, n)),
                 Members(d, sourceDir), StatSize(Archive(d, sourceDir), empty), manifest, options, t, n)

\* packageCommand, run number n at clock value t: the run record with the
\* outcome in status ("done": 'Plugin packaged successfully!' was printed)
packageCommand(d, options, empty, t, n) ==
  IF ~Exists(d, ManifestPath) THEN Outcome(Begin(d), "noManifest")
  ELSE IF ~IsJson(d, ManifestPath) THEN Outcome(Throw(Started(d)), "failed")
  ELSE IF MissingFiles(d, SourceDir(d)) # {} THEN Outcome(Started(d), "missing")
  ELSE Pack(Remove(d, OutputPath(Manifest(d), options)), SourceDir(d), Manifest(d), options, empty, t, n)

\* ------------------------------------------------------------------------
\* Project trees the commands are run on
\* ------------------------------------------------------------------------
MAIN_HTML == Chars("main.html")
OUTSIDE_HTML == Chars("../x.html")

\* manifests: the plain one, one whose entry file is not index.html, one
\* whose entryPoint leaves the project root, one with a field of its own
\* named buildMode (validateManifest only warns about unknown fields)
PlainManifest ==
  [id |-> Chars("p"), name |-> Chars("P"), version |-> Chars("1"), entryPoint |-> INDEX_HTML]
MANIFESTS ==
  { PlainManifest,
    [PlainManifest EXCEPT !.entryPoint = MAIN_HTML],
    [PlainManifest EXCEPT !.entryPoint = OUTSIDE_HTML],
    PlainManifest @@ [buildMode |-> Chars("dev")] }

\* the library directory: scripts only, or also a binary member, or also a
\* sub-directory
LIB_KINDS == {"scripts", "binary", "subdir"}

P(rel) == PathJoin(projectDir, Chars(rel))

LibTree(libKind) ==
  (P("lib") :> DirEntry(0)) @@
  (P("lib/k.js") :> TextFile(Chars("k = 1;  // lib\n"), 0)) @@
  (IF libKind = "binary" THEN (P("lib/f.bin") :> TextFile(<<INVALID_BYTE, "f">>, 0))
   ELSE IF libKind = "subdir"
     THEN (P("lib/v") :> DirEntry(0)) @@ (P("lib/v/w.js") :> TextFile(Chars("w"), 0))
   ELSE << >>)

Tree(manifest, libKind) ==
  (Chars("/") :> DirEntry(0)) @@
  (Chars("/r") :> DirEntry(0)) @@
  (Chars("/r/x.html") :> TextFile(Chars("<p>outside</p>"), 0)) @@
  (projectDir :> DirEntry(0)) @@
  (P("manifest.json") :> JsonFile(manifest, 0)) @@
  (P("index.html") :> TextFile(Chars(
     "<head><link rel=\"stylesheet\" href=\"a.css\"></head>\n<body>  <script src=\"m.js\"></script></body>"), 0)) @@
  (P("main.html") :> TextFile(Chars("<HEAD></HEAD><body><script>1</script></BODY>"), 0)) @@
  (P("a.css") :> TextFile(Chars("a { b: c; } /* c */"), 0)) @@
  (P("m.js") :> TextFile(Chars("m = 1;\n\n  // c"), 0)) @@
  (P("distx.js") :> TextFile(Chars("x"), 0)) @@
  (P("s") :> DirEntry(0)) @@
  (P("s/t.css") :> TextFile(Chars("t{}"), 0)) @@
  (P("s/node_modules") :> DirEntry(0)) @@
  (P("s/node_modules/u.js") :> TextFile(Chars("u"), 0)) @@
  (P("dist") :> DirEntry(0)) @@
  (P("dist/old.js") :> TextFile(Chars("old"), 0)) @@
  (P("node_modules") :> DirEntry(0)) @@
  (P("node_modules/n.js") :> TextFile(Chars("n"), 0)) @@
  (P(".git") :> DirEntry(0)) @@
  (P(".git/h.js") :> TextFile(Chars("h"), 0)) @@
  (P("assets") :> DirEntry(0)) @@
  (P("assets/i.png") :> TextFile(<<INVALID_BYTE, "i">>, 0)) @@
  LibTree(libKind)

\* the directories a command is started in: every manifest with the plain
\* library directory, every library directory with the plain manifest, a
\* project that was never built (no dist), a directory without a manifest,
\* and a project never built whose only page is the entry file main.html
TREES ==
  {Tree(manifest, "scripts") : manifest \in MANIFESTS}
    \cup {Tree(PlainManifest, libKind) : libKind \in LIB_KINDS}
    \cup {Remove(Tree(PlainManifest, "scripts"), DistDir),
          Remove(Tree(PlainManifest, "scripts"), ManifestPath),
          Remove(Remove(Tree([PlainManifest EXCEPT !.entryPoint = MAIN_HTML], "scripts"),
                        P("index.html")), DistDir)}

\* ------------------------------------------------------------------------
\* State
\* ------------------------------------------------------------------------
VARIABLES
  proc,          \* where serveCommand / the process is
  now,           \* Date.now()
  lastModified,  \* the change counter (let lastModified)
  reqs,          \* the requests in flight: one record per (req, res) pair
  lastWatch,     \* the last watch event: its file and what the callback did
  watcher,       \* the fs.watch subscription: "unset", "on" or "failed"
  interrupted,   \* SIGINT was received by the handler of serveCommand
  clientPc,      \* the browser page running the injected script
  clientReq,     \* the request of the browser page that is in flight, 0 if none
  lastCheck,     \* let lastCheck of the injected script
  stale,         \* a change was recorded after the displayed content was read
  disk,          \* the file system the build, bundle and package commands act on
  history,       \* the command runs so far, each with the disk it started from
  sample         \* a text and what the passes of one minifier made of it

vars == <<proc, now, lastModified, reqs, lastWatch, watcher, interrupted, clientPc, clientReq, lastCheck, stale,
          disk, history, sample>>
clientVars == <<clientPc, clientReq, lastCheck, stale>>
buildVars == <<disk, history>>
minifyVars == <<sample>>

\* no text is being minified
NoSample == [pass |-> "none", texts |-> <<>>]

Slots == 1..MaxReq

\* a free slot; res of a request: headersSent, status, body (kind, number of
\* live-reload fragments, reload flag), ended.  touched: a file-system call
\* was made on filePath; fault: a file-system call threw; escaped: an error
\* left the async file handler; thrown: the reload-check listener threw
FreeReq ==
  [st |-> "free", url |-> <<>>, aw |-> "none", filePath |-> <<>>,
   headersSent |-> FALSE, status |-> 0, kind |-> "none", inj |-> 0,
   reload |-> FALSE, ended |-> FALSE,
   touched |-> FALSE, escaped |-> FALSE, thrown |-> FALSE, fault |-> FALSE]

\* res.writeHead(code); res.end(body) on a response whose head is not sent
Respond(r, code, kind, inj, reload) ==
  [r EXCEPT !.headersSent = TRUE, !.status = code, !.kind = kind, !.inj = inj,
            !.reload = reload, !.ended = TRUE]

\* res.writeHead throws ERR_HTTP_HEADERS_SENT when the head was already sent
WriteHeadThrows(r) == r.headersSent

\* the catch block of the file handler: writeHead(500), end; when writeHead
\* throws there the error leaves the async handler as a rejected promise
CatchBlock(r) ==
  IF WriteHeadThrows(r)
    THEN [r EXCEPT !.st = "done", !.aw = "none", !.escaped = TRUE]
    ELSE [Respond(r, 500, "text", 0, FALSE) EXCEPT !.st = "done", !.aw = "none"]

\* a writeHead(code) / end(body) pair inside the try block, then return
TryRespond(r, code, kind, inj) ==
  IF WriteHeadThrows(r)
    THEN CatchBlock(r)
    ELSE [Respond(r, code, kind, inj, FALSE) EXCEPT !.st = "done", !.aw = "none"]

\* number of live-reload fragments in a body
CountScripts(content) == Cardinality({k \in 1..Len(content) : content[k] = liveReloadScript})

Alive == proc \in {"binding", "running", "closing"}

InitServer ==
  /\ proc = "start"
  /\ now = 0
  /\ lastModified = 0
  /\ reqs = [i \in Slots |-> FreeReq]
  /\ lastWatch = [seen |-> FALSE, file |-> <<>>, updated |-> FALSE]
  /\ watcher = "unset"
  /\ interrupted = FALSE
  /\ clientPc = "none"
  /\ clientReq = 0
  /\ lastCheck = 0
  /\ stale = FALSE

Init ==
  /\ InitServer
  /\ disk = Tree(PlainManifest, "scripts")
  /\ history = <<>>
  /\ sample = NoSample

\* ------------------------------------------------------------------------
\* serveCommand: startup
\* ------------------------------------------------------------------------
\* await fs.pathExists(manifestPath): without a manifest the command returns
CheckManifest ==
  /\ proc = "start"
  /\ \E present \in BOOLEAN : proc' = IF present THEN "loaded" ELSE "returned"
  /\ UNCHANGED <<now, lastModified, reqs, lastWatch, watcher, interrupted, clientVars, buildVars, minifyVars>>

\* the rest of the try block, one synchronous run after readJson resolves:
\* createServer, lastModified = Date.now(), fs.watch, server.on('request'),
\* server.listen, server.on('error'), process.on('SIGINT').  readJson or
\* fs.watch may throw: the outer catch logs the error and the command returns
\* before server.listen is reached.
Setup ==
  /\ proc = "loaded"
  /\ \E outcome \in {"ok", "readJsonThrows", "watchThrows"} :
       /\ proc' = IF outcome = "ok" THEN "binding" ELSE "returned"
       /\ lastModified' = IF outcome = "readJsonThrows" THEN lastModified ELSE now
       /\ watcher' = IF outcome = "ok" THEN "on" ELSE
                     IF outcome = "watchThrows" THEN "failed" ELSE watcher
  /\ UNCHANGED <<now, reqs, lastWatch, interrupted, clientVars, buildVars, minifyVars>>

\* the bind completes ('listening'), or fails: the 'error' handler calls
\* process.exit(1)
ListenResult ==
  /\ proc = "binding"
  /\ \E bound \in BOOLEAN : proc' = IF bound THEN "running" ELSE "exit1"
  /\ UNCHANGED <<now, lastModified, reqs, lastWatch, watcher, interrupted, clientVars, buildVars, minifyVars>>

\* the clock advances
Tick ==
  /\ now < MaxTime
  /\ now' = now + 1
  /\ UNCHANGED <<proc, lastModified, reqs, lastWatch, watcher, interrupted, clientVars, buildVars, minifyVars>>

\* ------------------------------------------------------------------------
\* The watch callback
\* ------------------------------------------------------------------------
\* file names reported by fs.watch, relative to the project directory
\* (<<>> stands for a null filename)
WATCH_FILES ==
  { <<>>,
    <<"m", ".", "j", "s">>,                               \* m.js
    <<"d", "i", "s", "t", "/", "a">>,                \* dist/a
    <<"d", "i", "s", "t", "x">>,                 \* distx     (a root file)
    <<"s", "/", "d", "i", "s", "t", "/", "a">>,      \* s/dist/a
    <<"n", "o", "d", "e", "_", "m", "o", "d", "u", "l", "e", "s", "/", "a">>,   \* node_modules/a
    <<"x", "n", "o", "d", "e", "_", "m", "o", "d", "u", "l", "e", "s">> }    \* xnode_modules (a root file)

\* the browser page shows content that the server has already read
ClientDisplays ==
  \/ clientPc \in {"idle", "polling"}
  \/ clientPc = "loading" /\ reqs[clientReq].st = "done"

WatchCallback ==
  /\ Alive
  /\ watcher = "on"
  /\ \E filename \in WATCH_FILES :
       LET upd == WatchFilter(filename)
       IN /\ lastModified' = IF upd THEN now ELSE lastModified
          /\ lastWatch' = [seen |-> TRUE, file |-> filename, updated |-> upd]
          /\ stale' = IF upd /\ ClientDisplays THEN TRUE ELSE stale
  /\ UNCHANGED <<proc, now, reqs, watcher, interrupted, clientPc, clientReq, lastCheck, buildVars, minifyVars>>

\* ------------------------------------------------------------------------
\* The 'request' event: both listeners run synchronously, in the order they
\* were registered: the createServer handler up to its first await, then the
\* reload-check listener
\* ------------------------------------------------------------------------
FileListener(url) ==
  LET filePath == MapUrl(url)
      r == [FreeReq EXCEPT !.url = url, !.filePath = filePath]
  IN IF ~PassesRootCheck(filePath)
       THEN [Respond(r, 403, "text", 0, FALSE) EXCEPT !.st = "done"]
       ELSE [r EXCEPT !.st = "pending", !.aw = "exists", !.touched = TRUE]

IsReloadCheck(url) == StartsWith(url, RELOAD_CHECK)

\* the reload-check listener, on the response as the file listener left it;
\* its writeHead throws synchronously when the head is already sent
ReloadListener(r, lm) ==
  IF ~IsReloadCheck(r.url) THEN r
  ELSE IF WriteHeadThrows(r) THEN [r EXCEPT !.thrown = TRUE]
  ELSE Respond(r, 200, "json", 0, ReloadAnswer(lm, ClientTime(r.url)))

OnRequest(url, lm) == ReloadListener(FileListener(url), lm)

\* an exception thrown synchronously by a listener is an uncaught exception:
\* the process dies
Emit(i, url) ==
  LET r == OnRequest(url, lastModified)
  IN /\ reqs' = [reqs EXCEPT ![i] = r]
     /\ proc' = IF r.thrown THEN "crashed" ELSE proc

\* a 'request' event whose reload check also stores the client's value in
\* the change counter
AcceptResets ==
  /\ proc = "running"
  /\ \E i \in Slots, url \in URLS :
       /\ reqs[i].st = "free"
       /\ Emit(i, url)
       /\ lastModified' = IF IsReloadCheck(url) THEN ClientTime(url) ELSE lastModified
  /\ UNCHANGED <<now, lastWatch, watcher, interrupted, clientVars, buildVars, minifyVars>>

Accept ==
  /\ proc = "running"
  /\ \E i \in Slots, url \in URLS :
       /\ reqs[i].st = "free"
       /\ Emit(i, url)
  /\ UNCHANGED <<now, lastModified, lastWatch, watcher, interrupted, clientVars, buildVars, minifyVars>>

\* ------------------------------------------------------------------------
\* The file handler after each await
\* ------------------------------------------------------------------------
Running == proc \in {"running", "closing"}

\* a promise rejected with nobody to handle it: the process dies
\* (node >= 15) or only warns (node 14)
Finish(i, r) ==
  /\ reqs' = [reqs EXCEPT ![i] = r]
  /\ IF r.escaped
       THEN \E dies \in BOOLEAN : proc' = IF dies THEN "crashed" ELSE proc
       ELSE proc' = proc

AfterPathExists ==
  /\ Running
  /\ \E i \in Slots :
       /\ reqs[i].st = "pending" /\ reqs[i].aw = "exists"
       /\ reqs' = [reqs EXCEPT ![i].aw =
                     IF PathExists(reqs[i].filePath) THEN "stat" ELSE "existsHtml"]
  /\ UNCHANGED <<proc, now, lastModified, lastWatch, watcher, interrupted, clientVars, buildVars, minifyVars>>

AfterPathExistsHtml ==
  /\ Running
  /\ \E i \in Slots :
       LET r == reqs[i]
       IN /\ r.st = "pending" /\ r.aw = "existsHtml"
          /\ IF PathExists(r.filePath \o DOT_HTML)
               THEN Finish(i, [r EXCEPT !.filePath = r.filePath \o DOT_HTML, !.aw = "stat"])
               ELSE Finish(i, TryRespond(r, 404, "text", 0))
  /\ UNCHANGED <<now, lastModified, lastWatch, watcher, interrupted, clientVars, buildVars, minifyVars>>

AfterStat ==
  /\ Running
  /\ \E i \in Slots, throws \in BOOLEAN :
       LET r == reqs[i]
       IN /\ r.st = "pending" /\ r.aw = "stat"
          /\ IF throws
               THEN Finish(i, CatchBlock([r EXCEPT !.fault = TRUE]))
               ELSE IF IsDirectory(r.filePath)
                 THEN Finish(i, [r EXCEPT !.filePath = PathJoin(r.filePath, INDEX_HTML),
                                          !.aw = "existsIndex"])
                 ELSE Finish(i, [r EXCEPT !.aw = "read"])
  /\ UNCHANGED <<now, lastModified, lastWatch, watcher, interrupted, clientVars, buildVars, minifyVars>>

AfterPathExistsIndex ==
  /\ Running
  /\ \E i \in Slots :
       LET r == reqs[i]
       IN /\ r.st = "pending" /\ r.aw = "existsIndex"
          /\ IF PathExists(r.filePath)
               THEN Finish(i, [r EXCEPT !.aw = "read"])
               ELSE Finish(i, TryRespond(r, 404, "text", 0))
  /\ UNCHANGED <<now, lastModified, lastWatch, watcher, interrupted, clientVars, buildVars, minifyVars>>

\* the body served for a file: HTML gets the live-reload fragment
ServedBody(filePath, content) ==
  IF ToLowerCase(Extname(filePath)) = DOT_HTML
    THEN [kind |-> "html", data |-> InjectLiveReload(content)]
    ELSE [kind |-> "raw", data |-> content]

AfterReadFile ==
  /\ Running
  /\ \E i \in Slots, throws \in BOOLEAN :
       LET r == reqs[i]
       IN /\ r.st = "pending" /\ r.aw = "read"
          /\ IF throws
               THEN /\ Finish(i, CatchBlock([r EXCEPT !.fault = TRUE]))
                    /\ stale' = stale
               ELSE LET b == ServedBody(r.filePath, FileContent(r.filePath))
                    IN /\ Finish(i, TryRespond(r, 200, b.kind, CountScripts(b.data)))
                       /\ stale' = IF i = clientReq /\ clientPc = "loading"
                                     THEN FALSE ELSE stale
  /\ UNCHANGED <<now, lastModified, lastWatch, watcher, interrupted, clientPc, clientReq, lastCheck, buildVars, minifyVars>>

\* the exchange is over: the request record is dropped
Release ==
  /\ \E i \in Slots :
       /\ reqs[i].st = "done"
       /\ i # clientReq
       /\ reqs' = [reqs EXCEPT ![i] = FreeReq]
  /\ UNCHANGED <<proc, now, lastModified, lastWatch, watcher, interrupted, clientVars, buildVars, minifyVars>>

\* ------------------------------------------------------------------------
\* Shutdown
\* ------------------------------------------------------------------------
\* SIGINT: server.close(callback) stops the listener
Sigint ==
  /\ proc = "running"
  /\ proc' = "closing"
  /\ interrupted' = TRUE
  /\ UNCHANGED <<now, lastModified, reqs, lastWatch, watcher, clientVars, buildVars, minifyVars>>

\* a request whose response has not been ended
Unanswered(r) == r.st # "free" /\ ~r.ended

\* 'close' is emitted once no connection is left; the callback calls
\* process.exit(0)
ServerClosed ==
  /\ proc = "closing"
  /\ \A i \in Slots : ~Unanswered(reqs[i])
  /\ proc' = "exit0"
  /\ UNCHANGED <<now, lastModified, reqs, lastWatch, watcher, interrupted, clientVars, buildVars, minifyVars>>

Next ==
  \/ CheckManifest
  \/ Setup
  \/ ListenResult
  \/ Tick
  \/ WatchCallback
  \/ Accept
  \/ AfterPathExists
  \/ AfterPathExistsHtml
  \/ AfterStat
  \/ AfterPathExistsIndex
  \/ AfterReadFile
  \/ Release
  \/ Sigint
  \/ ServerClosed

Spec == Init /\ [][Next]_vars

\* ------------------------------------------------------------------------
\* The browser page and its injected script (liveReloadScript)
\* ------------------------------------------------------------------------
\* the browser requests the page (first load, or location.reload())
ClientNavigate ==
  /\ proc = "running"
  /\ clientPc \in {"none", "reloading"}
  /\ \E i \in Slots :
       /\ reqs[i].st = "free"
       /\ Emit(i, ROOT_URL)
       /\ clientReq' = i
  /\ clientPc' = "loading"
  /\ UNCHANGED <<now, lastModified, lastWatch, watcher, interrupted, lastCheck, stale, buildVars, minifyVars>>

\* the page arrived: the script runs   let lastCheck = Date.now()
\* and starts its interval; a response without the fragment runs nothing
ClientRunScript ==
  /\ clientPc = "loading"
  /\ reqs[clientReq].st = "done"
  /\ IF reqs[clientReq].status = 200 /\ reqs[clientReq].inj > 0
       THEN clientPc' = "idle" /\ lastCheck' = now
       ELSE clientPc' = "none" /\ lastCheck' = lastCheck
  /\ reqs' = [reqs EXCEPT ![clientReq] = FreeReq]
  /\ clientReq' = 0
  /\ UNCHANGED <<proc, now, lastModified, lastWatch, watcher, interrupted, stale, buildVars, minifyVars>>

\* the interval fires: fetch('/__reload_check?t=' + lastCheck)
ClientPoll ==
  /\ proc = "running"
  /\ clientPc = "idle"
  /\ \E i \in Slots :
       /\ reqs[i].st = "free"
       /\ Emit(i, QueryT(NumToStr(lastCheck)))
       /\ clientReq' = i
  /\ clientPc' = "polling"
  /\ UNCHANGED <<now, lastModified, lastWatch, watcher, interrupted, lastCheck, stale, buildVars, minifyVars>>

\* the answer arrived: if (data.reload) location.reload(); lastCheck = Date.now()
ClientPollResult ==
  /\ clientPc = "polling"
  /\ reqs[clientReq].ended
  /\ clientPc' = IF reqs[clientReq].kind = "json" /\ reqs[clientReq].reload
                   THEN "reloading" ELSE "idle"
  /\ lastCheck' = now
  /\ clientReq' = 0
  /\ UNCHANGED <<proc, now, lastModified, reqs, lastWatch, watcher, interrupted, stale, buildVars, minifyVars>>

NextClient ==
  \/ CheckManifest
  \/ Setup
  \/ ListenResult
  \/ Tick
  \/ WatchCallback
  \/ AfterPathExists
  \/ AfterPathExistsHtml
  \/ AfterStat
  \/ AfterReadFile
  \/ Release
  \/ ClientNavigate
  \/ ClientRunScript
  \/ ClientPoll
  \/ ClientPollResult

\* the server with one browser page polling it (the page is the entry file,
\* so the directory branch of the file handler is never taken)
SpecClient == Init /\ [][NextClient]_vars

\* ------------------------------------------------------------------------
\* The commands as actions: each run acts on the disk as the previous run
\* left it, and is recorded in history
\* ------------------------------------------------------------------------
serverVars == <<proc, lastModified, reqs, lastWatch, watcher, interrupted, clientVars>>

InitBuild ==
  /\ InitServer
  /\ disk \in TREES
  /\ history = <<>>
  /\ sample = NoSample

\* the clock when a run that started at t ends: a run takes no time or one
\* unit of it
Later(t) == {u \in {t, t + 1} : u <= MaxTime}

\* values of --output the caller passes to build (none: 'dist')
OUTPUT_DIRS == {<<>>, Chars("out"), Chars(".")}
\* values of --output the caller passes to package (none: <id>-<version>.cposplugin)
PACKAGE_NAMES == {<<>>, Chars("manifest.cposplugin"), Chars("x.zip")}

\* the record of a run: the command, its options, the clock, the disk before
\* it, and what the run did
Ran(cmd, options, r) ==
  [cmd |-> cmd, options |-> options, t |-> now, before |-> disk,
   status |-> r.status, reads |-> r.reads, listed |-> r.listed]

\* cpos-plugin build [--output dir] [--minify]
Build ==
  /\ Len(history) < MaxRuns
  /\ \E output \in OUTPUT_DIRS, minify \in BOOLEAN :
       LET options == [output |-> output, minify |-> minify, bundle |-> FALSE]
           r == buildCommand(disk, options, now, Len(history) + 1)
       IN /\ disk' = r.disk
          /\ history' = Append(history, Ran("build", options, r))
  /\ now' \in Later(now)
  /\ UNCHANGED <<serverVars, minifyVars>>

\* cpos-plugin build --bundle [--minify]
Bundle ==
  /\ Len(history) < MaxRuns
  /\ \E output \in {<<>>}, minify \in BOOLEAN :
       LET options == [output |-> output, minify |-> minify, bundle |-> TRUE]
           r == buildBundled(disk, options, Len(history) + 1)
       IN /\ disk' = r.disk
          /\ history' = Append(history, Ran("bundle", options, r))
  /\ now' \in Later(now)
  /\ UNCHANGED <<serverVars, minifyVars>>

\* cpos-plugin package [--output file]
Package ==
  /\ Len(history) < MaxRuns
  /\ \E output \in PACKAGE_NAMES, empty \in BOOLEAN :
       LET options == [output |-> output]
           r == packageCommand(disk, options, empty, now, Len(history) + 1)
       IN /\ disk' = r.disk
          /\ history' = Append(history, Ran("package", options, r) @@ [empty |-> empty])
  /\ now' \in Later(now)
  /\ UNCHANGED <<serverVars, minifyVars>>

NextBuild ==
  \/ Build
  \/ Bundle
  \/ Package

SpecBuild == InitBuild /\ [][NextBuild]_vars

\* ------------------------------------------------------------------------
\* The minifiers applied to a text and then to their own output
\* ------------------------------------------------------------------------
\* the pieces the texts are made of: comment delimiters whole and in parts,
\* separators, quotes, white space
TOKENS ==
  [html |-> {Chars("<!-"), Chars("<!--"), Chars("-->"), Chars("-"), Chars(" ")},
   css |-> {Chars("/"), Chars("/*"), Chars("*/"), Chars("*"), Chars(";"), Chars("}")},
   js |-> {Chars("/"), Chars("/*"), Chars("*/"), Chars("'"), Chars("\n")}]

\* the texts made of n tokens
RECURSIVE TextsOf(_, _)
TextsOf(tokens, n) ==
  IF n = 0 THEN {<<>>}
  ELSE {token \o text : token \in tokens, text \in TextsOf(tokens, n - 1)}

Texts(pass) == UNION {TextsOf(TOKENS[pass], n) : n \in 0..MaxTokens}

InitMinify ==
  /\ InitServer
  /\ disk = Tree(PlainManifest, "scripts")
  /\ history = <<>>
  /\ \E pass \in DOMAIN TOKENS : \E text \in Texts(pass) :
       sample = [pass |-> pass, texts |-> <<text>>]

\* the text a pass is applied to: the input, then the output of the pass
Current == sample.texts[Len(sample.texts)]

Pass(name, text) ==
  /\ sample.pass = name
  /\ Len(sample.texts) < 3
  /\ sample' = [sample EXCEPT !.texts = Append(@, text)]
  /\ UNCHANGED <<serverVars, now, buildVars>>

MinifyHtml == Pass("html", minifyHtml(Current))
MinifyCss == Pass("css", minifyCss(Current))
MinifyJs == Pass("js", minifyJs(Current))

NextMinify ==
  \/ MinifyHtml
  \/ MinifyCss
  \/ MinifyJs

SpecMinify == InitMinify /\ [][NextMinify]_vars

\* ------------------------------------------------------------------------
\* Properties
\* ------------------------------------------------------------------------
\* segment-wise containment: the path is the project root or lies below it
InsideRoot(path) ==
  LET root == NormalizeSegs(Split(projectDir), <<>>)
      segs == NormalizeSegs(Split(path), <<>>)
  IN Len(segs) >= Len(root) /\ SubSeq(segs, 1, Len(root)) = root

\* C1: every request whose joined, normalised path is neither the project
\* root nor below it is answered with a rejection (403) and no existence
\* check, stat or read is made on the resolved path.
C1_TraversalRejected ==
  \A i \in Slots :
    (reqs[i].st # "free" /\ ~InsideRoot(MapUrl(reqs[i].url)))
      => (reqs[i].status = 403 /\ ~reqs[i].touched)

\* C2: no change is missed by the polling page: whenever the page is between
\* two polls and the server has recorded a change after the displayed content
\* was read, the counter is ahead of the value the next poll will carry (so
\* that poll answers reload = true).
C2_NoMissedChange ==
  (clientPc = "idle" /\ stale) => lastModified > lastCheck

\* C3: an unexpected error while a request is handled becomes a 500 response
\* of that request and never leaves the handler; the process is not brought
\* down by it.
C3_ErrorsIsolated ==
  \A i \in Slots :
    /\ ~reqs[i].escaped
    /\ reqs[i].fault => reqs[i].status = 500

\* C4: every successful HTML response carries exactly one live-reload
\* fragment.
C4_ExactlyOneFragment ==
  \A i \in Slots :
    (reqs[i].status = 200 /\ reqs[i].kind = "html") => reqs[i].inj = 1

\* C5: the change counter is written only by the watch callback (after its
\* initialisation at startup, never by a request handler) and never
\* decreases.
C5_CounterOnlyByWatch ==
  [][ /\ lastModified' # lastModified => (WatchCallback \/ proc = "loaded")
      /\ lastModified' >= lastModified ]_vars

\* a watch callback moved the counter while requests were being handled
C5_Witness ==
  /\ lastWatch.seen /\ lastWatch.updated
  /\ lastModified = now /\ now > 0
  /\ \E i \in Slots : reqs[i].kind = "json"
  /\ \E i \in Slots : reqs[i].kind = "html"

\* segment-wise: the file lies in the output directory (dist at the root) or
\* in a dependency directory (a node_modules directory)
UnderExcludedDir(filename) ==
  LET segs == Split(filename)
  IN \/ Len(segs) > 1 /\ segs[1] = DIST
     \/ \E k \in 1..(Len(segs) - 1) : segs[k] = NODE_MODULES

\* C6: a watch callback updates the counter if and only if the changed path
\* is not under the output directory or the dependency directory.
C6_WatchFilterExact ==
  (lastWatch.seen /\ lastWatch.file # <<>>)
    => (lastWatch.updated <=> ~UnderExcludedDir(lastWatch.file))

\* the request of slot i has just arrived in this step
Arrives(i) == reqs[i].st = "free" /\ reqs'[i].st # "free"

C8_WatchFailureStillServes ==
  watcher = "failed" => proc \in {"binding", "running", "closing"}

\* C9: a GET of a missing path is answered 404 and leaves the server
\* running (until the operator interrupts it), whatever other requests are
\* handled, and a GET of / with index.html present is answered 200.
C9_NotFoundKeepsServing ==
  \A i \in Slots :
    /\ (reqs[i].status = 404 /\ ~interrupted) => proc = "running"
    /\ (reqs[i].url = ROOT_URL /\ reqs[i].st = "done" /\ ~reqs[i].fault)
         => reqs[i].status = 200

\* C10: after an interrupt the process exits only once every accepted
\* request has been answered.
C10_ExitOnlyWhenDrained ==
  (interrupted /\ proc \notin {"running", "closing"})
    => \A i \in Slots : ~Unanswered(reqs[i])

\* ------------------------------------------------------------------------
\* Properties of the build, bundle and package commands.  The disk of a
\* state is the disk after the last run of history; a run's record keeps
\* the disk it started from.
\* ------------------------------------------------------------------------
Runs == 1..Len(history)

\* the disk after run k
After(k) == IF k = Len(history) THEN disk ELSE history[k + 1].before

CompletedBuild(k) == history[k].cmd = "build" /\ history[k].status = "done"

FilesUnder(d, dir) == {q \in DOMAIN d : IsFile(d, q) /\ Under(q, dir)}

\* C11: after a Build that completes, every file in its output directory
\* was written by that run; nothing that was there before the run is left.
C11_OutputOnlyFromThisRun ==
  \A k \in Runs :
    CompletedBuild(k) =>
      \A q \in FilesUnder(After(k), OutputDir(history[k].options)) : After(k)[q].by = k

\* a completed Build whose output directory held files before it started
C11_Witness ==
  \E k \in Runs :
    /\ CompletedBuild(k)
    /\ FilesUnder(history[k].before, OutputDir(history[k].options)) # {}
    /\ FilesUnder(After(k), OutputDir(history[k].options)) # {}

\* the disk before the first run
Origin == IF history = <<>> THEN disk ELSE history[1].before

\* the files of the project tree before any run, its manifest included,
\* outside the output directory the tree starts with
SourceFiles == {q \in FilesUnder(Origin, projectDir) : ~Under(q, DistDir)}

\* C12: no Build, bundle or Package run removes or changes the manifest or
\* any other source file of the project, whatever output name is passed.
C12_SourcesUntouched ==
  \A q \in SourceFiles : q \in DOMAIN disk /\ Content(disk[q]) = Content(Origin[q])

\* the directory names of a path below the project root
Segments(q) == Range(Split(PathRelative(projectDir, q)))

\* an output directory inside the project tree
Nested(outputDir) == Under(outputDir, projectDir) /\ outputDir # projectDir

\* q lies in a directory a build must leave alone: the output directory of
\* run k or of an earlier build, a dependency cache or a version-control
\* directory at any depth
Excluded(q, k) ==
  /\ Under(q, projectDir)
  /\ \/ Segments(q) \cap {NODE_MODULES, Chars(".git")} # {}
     \/ \E j \in 1..k :
          /\ history[j].cmd \in {"build", "bundle"}
          /\ Nested(OutputDir(history[j].options))
          /\ Under(q, OutputDir(history[j].options))

\* C13: a Build never lists a directory or reads a file inside an excluded
\* directory, whatever output directory names earlier builds used.
C13_ExcludedNeverVisited ==
  \A k \in Runs :
    history[k].cmd = "build" =>
      \A q \in history[k].reads \cup history[k].listed : ~Excluded(q, k)

\* the CSS and JS source files run k starts from: those of the project tree
\* outside its output directory, earlier output directories, dependency
\* caches and version-control directories
Sources(k, ext) ==
  {q \in FilesUnder(history[k].before, projectDir) :
     /\ EndsWith(q, ext)
     /\ ~Excluded(q, k)
     /\ ~Under(q, OutputDir(history[k].options))
     /\ ~Under(q, DistDir)}

\* the output of run k holds file q at its relative path, with the content
\* the options ask for
Mirrored(k, q, ext) ==
  LET dest == PathJoin(OutputDir(history[k].options), PathRelative(projectDir, q))
      text == history[k].before[q].text
  IN /\ IsFile(After(k), dest)
     /\ After(k)[dest].text = IF history[k].options.minify THEN MinifyAs(ext, text) ELSE text

\* C14: after a Build that completes, every CSS and JS source file is in
\* the output at the same relative path, minified or unchanged as asked; no
\* file is left out because of its name.
C14_EverySourceMirrored ==
  \A k \in Runs :
    CompletedBuild(k) =>
      \A ext \in {DOT_CSS, DOT_JS} : \A q \in Sources(k, ext) : Mirrored(k, q, ext)

\* the files and directories of run k's output directory with their content
OutputOf(k) ==
  {<<q, Content(After(k)[q])>> : q \in {p \in DOMAIN After(k) : Under(p, OutputDir(history[k].options))}}

\* the same, with the build date of the output manifest blanked
Undated(e) == IF "buildDate" \in DOMAIN e.json THEN [e EXCEPT !.json["buildDate"] = <<>>] ELSE e
UndatedOutputOf(k) ==
  {<<q, IF q = PathJoin(OutputDir(history[k].options), MANIFEST_JSON)
          THEN Undated(Content(After(k)[q])) ELSE Content(After(k)[q])>> :
     q \in {p \in DOMAIN After(k) : Under(p, OutputDir(history[k].options))}}

\* the project tree run k starts from, outside its output directory
ProjectTree(k) ==
  {<<q, Content(history[k].before[q])>> :
     q \in {p \in DOMAIN history[k].before :
              Under(p, projectDir) /\ ~Under(p, OutputDir(history[k].options))}}

\* runs k - 1 and k are completed builds with the same options on the same
\* project tree
Rebuilt(k) ==
  /\ k > 1
  /\ CompletedBuild(k - 1) /\ CompletedBuild(k)
  /\ history[k].options = history[k - 1].options
  /\ ProjectTree(k) = ProjectTree(k - 1)

\* C15 as stated: the second of two consecutive builds with the same
\* options on an unchanged project tree leaves an output directory whose
\* relative paths and contents equal the first one's.
C15_RebuildIdentical ==
  \A k \in Runs : Rebuilt(k) => OutputOf(k) = OutputOf(k - 1)

\* C15: the two output directories are equal except for the buildDate field
\* of the output manifest.
C15_RebuildIdenticalButDate ==
  \A k \in Runs : Rebuilt(k) => UndatedOutputOf(k) = UndatedOutputOf(k - 1)

\* a rebuild at a later clock value than the first build
C15_Witness ==
  \E k \in Runs : Rebuilt(k) /\ history[k].t # history[k - 1].t /\ history[k].options.output = <<>>

\* C16: Build and Bundle read no file outside the project root, whatever
\* entryPoint the manifest names.
C16_EntryReadInsideRoot ==
  \A k \in Runs :
    history[k].cmd \in {"build", "bundle"} =>
      \A q \in history[k].reads : Under(q, projectDir)

\* the manifest run k read
ManifestOf(k) == Manifest(history[k].before)

\* run k is a completed build whose entry file existed in the project,
\* outside the output directory, when the run started
BuiltWithEntry(k) ==
  /\ CompletedBuild(k)
  /\ IsFile(history[k].before, HtmlPath(ManifestOf(k)))
  /\ Under(HtmlPath(ManifestOf(k)), projectDir)
  /\ ~Under(HtmlPath(ManifestOf(k)), OutputDir(history[k].options))

\* the entry file of run k is in the output at its relative path
EntryMirrored(k) ==
  LET dest == PathJoin(OutputDir(history[k].options), EntryPoint(ManifestOf(k)))
      text == Utf8(history[k].before[HtmlPath(ManifestOf(k))].text)
  IN /\ IsFile(After(k), dest)
     /\ After(k)[dest].text = IF history[k].options.minify THEN minifyHtml(text) ELSE text

\* C17: when the manifest's entry file exists, a completed Build has
\* written it to the output directory at the relative path it has in the
\* project, minified when asked, so that the output manifest's entryPoint
\* names a file of the output tree.
C17_EntryAtSamePath ==
  \A k \in Runs : BuiltWithEntry(k) => EntryMirrored(k)

\* the manifest run k wrote at its output root
OutputManifest(k) == After(k)[PathJoin(OutputDir(history[k].options), MANIFEST_JSON)].json

\* buildDate and buildMode are the two added fields and nothing else is added
Augmented(k) ==
  /\ DOMAIN OutputManifest(k) = DOMAIN ManifestOf(k) \cup {"buildDate", "buildMode"}
  /\ OutputManifest(k)["buildDate"] = IsoString(history[k].t)
  /\ OutputManifest(k)["buildMode"] = PRODUCTION

\* C18 as stated: the output manifest has every field of the source
\* manifest with the same value, plus buildDate and buildMode = production,
\* and nothing else.
C18_ManifestAugmented ==
  \A k \in Runs :
    CompletedBuild(k) =>
      /\ Augmented(k)
      /\ \A f \in DOMAIN ManifestOf(k) : OutputManifest(k)[f] = ManifestOf(k)[f]

\* C18: every field of the source manifest other than buildDate and
\* buildMode keeps its value; buildDate is the time of the build and
\* buildMode is production, replacing values the source gives them; there
\* is no other field.
C18_ManifestAugmentedOverriding ==
  \A k \in Runs :
    CompletedBuild(k) =>
      /\ Augmented(k)
      /\ \A f \in DOMAIN ManifestOf(k) \ {"buildDate", "buildMode"} :
           OutputManifest(k)[f] = ManifestOf(k)[f]

\* a completed build of a manifest that has a buildMode of its own
C18_Witness ==
  \E k \in Runs :
    /\ CompletedBuild(k)
    /\ "buildMode" \in DOMAIN ManifestOf(k)
    /\ ManifestOf(k)["buildMode"] # PRODUCTION
    /\ OutputManifest(k)["buildMode"] = PRODUCTION

\* run k is a build that read its manifest in a project with a library
\* directory outside the output directory
BuiltWithLib(k) ==
  /\ history[k].cmd = "build"
  /\ IsJson(history[k].before, ManifestPath)
  /\ IsDir(history[k].before, LibDir)
  /\ ~Under(LibDir, OutputDir(history[k].options))

\* the content a library member is to have in the output
LibContent(k, q) ==
  IF history[k].options.minify /\ EndsWith(q, DOT_JS) THEN minifyJs(history[k].before[q].text)
  ELSE IF history[k].options.minify /\ EndsWith(q, DOT_CSS) THEN minifyCss(history[k].before[q].text)
  ELSE history[k].before[q].text

LibMirrored(k, q) ==
  LET dest == PathJoin(OutputDir(history[k].options), PathRelative(projectDir, q))
  IN IsFile(After(k), dest) /\ After(k)[dest].text = LibContent(k, q)

\* C19: a Build of a project with a library directory completes, whatever
\* the members are, and every member, files of sub-directories included, is
\* in the output's library directory: scripts and stylesheets minified when
\* asked, every other member with the content of the source.
C19_LibCopied ==
  \A k \in Runs :
    BuiltWithLib(k) =>
      /\ history[k].status = "done"
      /\ \A q \in FilesUnder(history[k].before, LibDir) : LibMirrored(k, q)

\* the number of places of s where p starts
Count(s, p) == Cardinality({i \in 1..Len(s) : StartsWithAt(s, i, p)})

\* the page bundle run k wrote, in lower case
BundledPage(k) == ToLowerCase(After(k)[BundlePath(ManifestOf(k), history[k].options)].text)

\* C20: the page written by a Bundle that completes has exactly one inline
\* style block and exactly one inline script block, whatever the entry HTML
\* of the project and the stylesheet and script files are.
C20_OneStyleOneScript ==
  \A k \in Runs :
    (/\ history[k].cmd = "bundle" /\ history[k].status = "done"
     /\ Under(HtmlPath(ManifestOf(k)), projectDir)) =>
      /\ Count(BundledPage(k), Chars("<style>")) = 1
      /\ Count(BundledPage(k), Chars("<script>")) = 1

CompletedBundle(k) == history[k].cmd = "bundle" /\ history[k].status = "done"

\* the script files bundle run k concatenates, in the order of the text
Scripts(k) == LibScripts(history[k].before) \o JsFiles(history[k].before)

\* C21: the script text of a Bundle that completes is made of every script
\* file of the project outside the output and dependency directories, each
\* exactly once, the scripts of the library directory before all others.
C21_ScriptsLibFirstEachOnce ==
  \A k \in Runs :
    CompletedBundle(k) =>
      /\ Range(Scripts(k)) = Sources(k, DOT_JS)
      /\ Cardinality(Range(Scripts(k))) = Len(Scripts(k))
      /\ \A i, j \in 1..Len(Scripts(k)) :
           (i < j /\ Under(Scripts(k)[j], LibDir)) => Under(Scripts(k)[i], LibDir)

\* the file a bundle run writes, for the manifest it read
BundleFile(k) == BundlePath(ManifestOf(k), history[k].options)

\* C22: a Bundle started without a manifest, or with a manifest whose entry
\* file does not exist, ends with the report of that precondition and not
\* with the report of success, and writes no file.
C22_BundlePreconditions ==
  \A k \in Runs :
    history[k].cmd = "bundle" =>
      /\ ~Exists(history[k].before, ManifestPath) =>
           /\ history[k].status = "noManifest"
           /\ FilesUnder(After(k), projectDir) = FilesUnder(history[k].before, projectDir)
      /\ (IsJson(history[k].before, ManifestPath)
            /\ ~Exists(history[k].before, HtmlPath(ManifestOf(k)))) =>
           /\ history[k].status = "noEntry"
           /\ ~Exists(After(k), BundleFile(k))
           /\ \A q \in FilesUnder(After(k), projectDir) :
                q \in DOMAIN history[k].before /\ After(k)[q] = history[k].before[q]

\* a bundle run that found the manifest and not the entry file it names
C22_Witness ==
  \E k \in Runs :
    /\ history[k].cmd = "bundle" /\ history[k].status = "noEntry"
    /\ ~Exists(history[k].before, HtmlPath(ManifestOf(k)))

\* package run k read a manifest
Packaging(k) == history[k].cmd = "package" /\ IsJson(history[k].before, ManifestPath)

\* file is in the packaging source of run k or, when that is the build
\* output, at the project root
Found(k, file) ==
  \/ Exists(history[k].before, PathJoin(SourceDir(history[k].before), file))
  \/ /\ SourceDir(history[k].before) # projectDir
     /\ Exists(history[k].before, PathJoin(projectDir, file))

\* C23: a Package run stops at the validation, leaving the disk as it was,
\* exactly when the entry file of the manifest or the manifest is found
\* neither in the packaging source nor at the project root; otherwise it
\* goes on to write the archive.
C23_AbortsExactlyWhenMissing ==
  \A k \in Runs :
    Packaging(k) =>
      /\ history[k].status = "missing"
           <=> ~(Found(k, EntryPoint(ManifestOf(k))) /\ Found(k, MANIFEST_JSON))
      /\ history[k].status = "missing" => After(k) = history[k].before

\* the names of the allow-listed files and of the files of the allow-listed
\* directories that exist at the project root of disk d
AllowListed(d) ==
  {file \in FILES_TO_INCLUDE \cup OPTIONAL_FILES : IsFile(d, PathJoin(projectDir, file))}
    \cup {PathRelative(projectDir, q) :
            q \in FilesUnder(d, PathJoin(projectDir, ASSETS)) \cup FilesUnder(d, LibDir)}

\* package run k starts in a project without build output that has its
\* manifest and the entry file the manifest names
FromRoot(k) ==
  /\ Packaging(k)
  /\ ~Exists(history[k].before, DistDir)
  /\ IsFile(history[k].before, HtmlPath(ManifestOf(k)))
  /\ Under(HtmlPath(ManifestOf(k)), projectDir)

\* the archive package run k wrote under its default name
DefaultArchive(k) == After(k)[OutputPath(ManifestOf(k), history[k].options)].arc

\* C24: without a build output directory, a Package run in a project that
\* has its entry file and its manifest succeeds, and the archive holds
\* exactly the allow-listed files and directories that exist; without a
\* manifest the run fails, naming what is missing.
C24_PackagesFromRoot ==
  \A k \in Runs :
    history[k].cmd = "package" =>
      /\ FromRoot(k) => history[k].status = "done"
      /\ (FromRoot(k) /\ history[k].status = "done" /\ history[k].options.output = <<>>) =>
           DOMAIN DefaultArchive(k) = AllowListed(history[k].before)
      /\ ~Exists(history[k].before, ManifestPath) =>
           history[k].status \in {"noManifest", "missing"} /\ After(k) = history[k].before

PackagedBy(k) == Packaging(k) /\ history[k].status = "done"

ArchivePath(k) == OutputPath(ManifestOf(k), history[k].options)
SidecarPath(k) == InfoPath(ManifestOf(k), history[k].options)

\* C25: after a Package run that reports success the sidecar is a file
\* other than the archive, both exist, and the archive is still the
\* archive that was written, whatever output name was passed.
C25_SidecarBesideArchive ==
  \A k \in Runs :
    PackagedBy(k) =>
      /\ SidecarPath(k) # ArchivePath(k)
      /\ IsFile(After(k), ArchivePath(k)) /\ After(k)[ArchivePath(k)].json = <<>>
      /\ IsFile(After(k), SidecarPath(k)) /\ After(k)[SidecarPath(k)].json # <<>>

\* the package info file run k wrote
Sidecar(k) == After(k)[SidecarPath(k)].json

\* C26: a Package run that finds its archive empty (size zero) never
\* reports success and never writes the sidecar.
C26_EmptyArchiveIsFailure ==
  \A k \in Runs :
    (Packaging(k) /\ history[k].empty) =>
      /\ history[k].status # "done"
      /\ ~(IsFile(After(k), SidecarPath(k)) /\ After(k)[SidecarPath(k)].by = k)

\* package run k succeeded under the default name, with an archive that
\* reached the disk, for a manifest that has an id and a version
PackagedByDefault(k) ==
  /\ PackagedBy(k)
  /\ ~history[k].empty
  /\ history[k].options.output = <<>>
  /\ FieldOr(ManifestOf(k), "id", <<>>) # <<>>
  /\ FieldOr(ManifestOf(k), "version", <<>>) # <<>>

\* I-V for the manifest of run k
BaseName(k) == ManifestOf(k)["id"] \o <<"-">> \o ManifestOf(k)["version"]

NotSpace(c) == ~IsSpace(c)
Unspaced(text) == SelectSeq(text, NotSpace)

\* C28: each minifier applied to its own output returns that output, up to
\* white space, for every input text.
C28_MinifiersIdempotent ==
  Len(sample.texts) = 3 => Unspaced(sample.texts[3]) = Unspaced(sample.texts[2])

\* a handler called res.writeHead on a response whose head another handler
\* had sent and which that handler had ended: the file handler after its
\* awaits (escaped), or the reload-check listener (thrown)
WroteToCompleted(r) == r.escaped \/ r.thrown

\* C29: of the two 'request' listeners at most one writes the head of a
\* request's response and ends it; no listener writes to a response that the
\* other has completed, reload checks included.
C29_OneWriterPerResponse ==
  \A i \in Slots : reqs[i].st # "free" => ~WroteToCompleted(reqs[i])

\* the same for the requests that are not reload checks
FilesHaveOneWriter ==
  \A i \in Slots :
    (reqs[i].st # "free" /\ ~IsReloadCheck(reqs[i].url)) => ~WroteToCompleted(reqs[i])

\* package run k reported success for an archive whose bytes reached the
\* disk and are still there, in a project whose entry file is index.html
ArchiveCreated(k) ==
  /\ PackagedBy(k)
  /\ ~history[k].empty
  /\ ArchivePath(k) # SidecarPath(k)
  /\ EntryPoint(ManifestOf(k)) = INDEX_HTML

\* the member names of that archive
MemberNames(k) == DOMAIN After(k)[ArchivePath(k)].arc

\* the build output of run k was there and held neither required file
FromBareOutput(k) ==
  /\ SourceDir(history[k].before) = DistDir
  /\ \A file \in REQUIRED_FILES : ~Exists(history[k].before, PathJoin(DistDir, file))

\* C30: every archive that a Package run reports as created holds the entry
\* file and the manifest, whatever Build, Bundle and Package runs came
\* before and whichever directory the archive was made from.
C30_ArchiveHoldsRequired ==
  \A k \in Runs : ArchiveCreated(k) => REQUIRED_FILES \subseteq MemberNames(k)

\* the archives made from the project root hold both
ArchiveFromRootHoldsRequired ==
  \A k \in Runs :
    (ArchiveCreated(k) /\ SourceDir(history[k].before) = projectDir) =>
      REQUIRED_FILES \subseteq MemberNames(k)

\* an archive made from a build output that holds only a bundle
ArchiveOfBundleOnly ==
  \E k \in Runs :
    /\ k > 1 /\ CompletedBundle(k - 1) /\ ArchiveCreated(k) /\ FromBareOutput(k)
    /\ MemberNames(k) = {ManifestOf(k)["id"] \o Chars(".html")}

====
